---- MODULE Spec2Model ----
(***************************************************************************)
(* A model of ccache's src/execute.cpp: the executable resolver            *)
(* (find_executable, find_executable_in_path), the POSIX launcher          *)
(* (execute, execute_noreturn) and the Windows launcher (win32execute,     *)
(* win32getshell).                                                         *)
(*                                                                         *)
(* A path is a sequence of component strings (<<"a", "cc">> is a/cc); the  *)
(* empty sequence is the empty path, which the code uses for "no result".  *)
(* A path list is a sequence of tokens, each a directory letter or the     *)
(* platform's delimiter, standing for the characters of the string.        *)
(***************************************************************************)
EXTENDS Integers, Sequences, FiniteSets, TLC

VARIABLES
  win,    \* build variant: TRUE for the _WIN32 branch, FALSE for POSIX
  fs,     \* the file system the resolver sees: path -> entry
  fcall,  \* the resolver call in progress: function and arguments
  fret,   \* the resolver call's outcome
  entry,  \* POSIX: the launcher function called (execute or execute_noreturn)
  pc,     \* POSIX: the calling process's position in it
  compiler_pid,  \* POSIX: ctx.compiler_pid
  sigBlocked,    \* POSIX: a SignalHandlerBlocker is alive
  pfds,   \* POSIX: the caller's fd_out and fd_err are open
  child,  \* POSIX: the forked child process
  status, \* POSIX: the raw status waitpid stored
  waitlog,\* POSIX: the results of the waitpid calls so far, in order
  ret,    \* POSIX: how the call ended
  sigseen,\* POSIX: what the signal handler found in ctx.compiler_pid last
  shcall, \* Windows: the win32getshell call in progress: its inputs
  shret,  \* Windows: the win32getshell call's result
  wl      \* Windows: the state of a win32execute call

findVars == <<fs, fcall, fret>>
posixVars == <<entry, pc, compiler_pid, sigBlocked, pfds, child, status, waitlog, ret, sigseen>>
shellVars == <<shcall, shret>>
vars == <<win, findVars, posixVars, shellVars, wl>>

-----------------------------------------------------------------------------
(* Bounds *)

\* Longest path list, in tokens (directory letters and delimiters).
MaxPathLen == 3
\* Longest configured path / PATH value given to find_executable, in tokens.
MaxEnvLen == 1
\* Most waitpid calls of one launch that a signal interrupts.
MaxEintr == 2

-----------------------------------------------------------------------------
(* Paths and the file system *)

NoPath == <<>>

DirLetters == {"a", "b"}

Delim == IF win THEN ";" ELSE ":"

RECURSIVE SeqsUpTo(_, _)
SeqsUpTo(S, n) ==
  IF n = 0 THEN {<<>>}
  ELSE LET shorter == SeqsUpTo(S, n - 1)
       IN shorter \cup {Append(s, t) : s \in {q \in shorter : Len(q) = n - 1}, t \in S}

PathLists(n) == SeqsUpTo(DirLetters \cup {Delim}, n)

\* The compiler name the resolver is asked for, and the ccache binary's.
CompilerName == "cc"
CcacheName == "ccache"

ExeSuffixed(file) == file \o ".exe"

OtherDir(d) == IF d = "a" THEN "b" ELSE "a"

CcachePath == <<"opt", CcacheName>>

\* The paths that may hold something; every other path is absent.
FsPaths ==
  {<<d, CompilerName>> : d \in DirLetters}
    \cup (IF win THEN {<<d, ExeSuffixed(CompilerName)>> : d \in DirLetters} ELSE {})
    \cup {CcachePath}

Absent == [kind |-> "absent", x |-> FALSE, to |-> NoPath]
File(x) == [kind |-> "file", x |-> x, to |-> NoPath]
Link(p) == [kind |-> "link", x |-> FALSE, to |-> p]

\* What a path may hold: nothing, a regular file (with or, on POSIX, without
\* the executable bit), or a symbolic link to the same file name in the other
\* directory (two such links make a loop), or to the ccache binary.
EntriesAt(p) ==
  IF p = CcachePath THEN {File(TRUE), Absent}
  ELSE {Absent, File(TRUE), Link(<<OtherDir(p[1]), p[2]>>), Link(CcachePath)}
         \cup (IF win THEN {} ELSE {File(FALSE)})

FileSystems == {f \in [FsPaths -> UNION {EntriesAt(p) : p \in FsPaths}] :
                  \A p \in FsPaths : f[p] \in EntriesAt(p)}

Entry(p) == IF p \in DOMAIN fs THEN fs[p] ELSE Absent

\* Following symbolic links from p: the path of the file reached, or NoPath
\* for a missing file, a dangling link or a link loop.
RECURSIVE Follow(_, _)
Follow(p, fuel) ==
  IF fuel = 0 THEN NoPath
  ELSE LET e == Entry(p)
       IN CASE e.kind = "absent" -> NoPath
            [] e.kind = "link" -> Follow(e.to, fuel - 1)
            [] OTHER -> p

\* fs::canonical(p): an empty result stands for the error (no value).
Canonical(p) == IF p = NoPath THEN NoPath ELSE Follow(p, Cardinality(DOMAIN fs) + 1)

\* access(p, X_OK) == 0
AccessX(p) == LET r == Canonical(p) IN r # NoPath /\ Entry(r).x

\* util::DirEntry(p).is_regular_file()
IsRegularFile(p) == LET r == Canonical(p) IN r # NoPath /\ Entry(r).kind = "file"

\* is_ccache_executable(p): the file name is ccache's own.
IsCcacheExecutable(p) ==
  p # NoPath /\ p[Len(p)] \in {CcacheName, ExeSuffixed(CcacheName)}

\* util::split_path_list: the directories between delimiters, empty ones dropped.
RECURSIVE SplitFrom(_, _, _)
SplitFrom(tokens, cur, acc) ==
  IF tokens = <<>> THEN (IF cur = "" THEN acc ELSE Append(acc, cur))
  ELSE IF Head(tokens) = Delim
       THEN SplitFrom(Tail(tokens), "", IF cur = "" THEN acc ELSE Append(acc, cur))
       ELSE SplitFrom(Tail(tokens), cur \o Head(tokens), acc)

SplitPathList(path_list) == SplitFrom(path_list, "", <<>>)

-----------------------------------------------------------------------------
(* Names *)

\* A name is a path too: <<"cc">> is relative, <<"/", "cc">> starts at the root
\* directory, <<"C:", "/", "cc">> has a root name and a root directory.
RelativeName == <<CompilerName>>
RootedName == <<"/", CompilerName>>
DriveName == <<"C:", "/", CompilerName>>

HasRootName(n) == win /\ n # NoPath /\ n[1] = "C:"

HasRootDirectory(n) ==
  \/ n # NoPath /\ n[1] = "/"
  \/ HasRootName(n) /\ Len(n) >= 2 /\ n[2] = "/"

\* fs::path(name).is_absolute()
IsAbsolute(n) == IF win THEN HasRootName(n) /\ HasRootDirectory(n) ELSE HasRootDirectory(n)

\* dir / name
PathJoin(dir, n) == IF HasRootName(n) \/ HasRootDirectory(n) THEN n ELSE <<dir>> \o n

\* FMT("{}.exe", name)
WithExe(n) == SubSeq(n, 1, Len(n) - 1) \o <<ExeSuffixed(n[Len(n)])>>

-----------------------------------------------------------------------------
(* The executable resolver *)

NoExclude == [has |-> FALSE, path |-> NoPath]
Exclude(p) == [has |-> TRUE, path |-> p]

\* A slip in the order: the .exe variant tried before the plain name.
Candidates_ExeFirst(dir, name) ==
  (IF win THEN <<PathJoin(dir, WithExe(name))>> ELSE <<>>) \o <<PathJoin(dir, name)>>

\* The candidates of one directory, in the order they are tried.
Candidates(dir, name) ==
  <<PathJoin(dir, name)>> \o (IF win THEN <<PathJoin(dir, WithExe(name))>> ELSE <<>>)

CandidateExists(candidate) ==
  IF win THEN IsRegularFile(candidate) ELSE AccessX(candidate)

\* A slip in the test: the candidate's own path compared, not its canonical form.
CandidateAccepted_RawCompare(candidate, real_exclude_path) ==
  LET real_candidate == Canonical(candidate)
  IN /\ real_candidate # NoPath
     /\ candidate # real_exclude_path
     /\ ~IsCcacheExecutable(real_candidate)

\* The test a candidate must pass once it is known to exist.
CandidateAccepted(candidate, real_exclude_path) ==
  LET real_candidate == Canonical(candidate)
  IN /\ real_candidate # NoPath
     /\ real_candidate # real_exclude_path
     /\ ~IsCcacheExecutable(real_candidate)

\* The inner loop: the first candidate of the list that exists and is
\* accepted.  probes collects the candidates whose existence was tested.
RECURSIVE ScanCandidates(_, _, _)
ScanCandidates(candidates, real_exclude_path, probes) ==
  IF candidates = <<>> THEN [found |-> FALSE, value |-> NoPath, probes |-> probes]
  ELSE LET candidate == Head(candidates)
           probed == Append(probes, candidate)
       IN IF CandidateExists(candidate) /\ CandidateAccepted(candidate, real_exclude_path)
          THEN [found |-> TRUE, value |-> candidate, probes |-> probed]
          ELSE ScanCandidates(Tail(candidates), real_exclude_path, probed)

\* The outer loop over the directories of the path list.
RECURSIVE ScanDirs(_, _, _, _)
ScanDirs(dirs, name, real_exclude_path, probes) ==
  IF dirs = <<>> THEN [value |-> NoPath, probes |-> probes]
  ELSE LET r == ScanCandidates(Candidates(Head(dirs), name), real_exclude_path, probes)
       IN IF r.found THEN [value |-> r.value, probes |-> r.probes]
          ELSE ScanDirs(Tail(dirs), name, real_exclude_path, r.probes)

\* find_executable_in_path(name, path_list, exclude_path)
FindExecutableInPath(name, path_list, exclude_path) ==
  IF path_list = <<>> THEN [value |-> NoPath, probes |-> <<>>]
  ELSE LET real_exclude_path ==
             IF exclude_path.has THEN Canonical(exclude_path.path) ELSE NoPath
       IN ScanDirs(SplitPathList(path_list), name, real_exclude_path, <<>>)

\* getenv("PATH"): unset, or set to a value.
EnvUnset == [set |-> FALSE, value |-> <<>>]
EnvSet(v) == [set |-> TRUE, value |-> v]

Returned(value, probes, reads, log) ==
  [outcome |-> "returned", value |-> value, probes |-> probes, reads |-> reads, log |-> log]
Crashed(reads) ==
  [outcome |-> "crashed", value |-> NoPath, probes |-> <<>>, reads |-> reads, log |-> <<>>]

\* path_list = getenv("PATH") with PATH unset assigns a null pointer to a
\* std::string, which is undefined: the build either crashes in the
\* assignment or carries on with an empty string.
AssignEnvOutcomes(env_path) ==
  IF env_path.set THEN {[crashed |-> FALSE, path_list |-> env_path.value]}
  ELSE {[crashed |-> TRUE, path_list |-> <<>>], [crashed |-> FALSE, path_list |-> <<>>]}

\* The part of find_executable after the PATH lookup.
FindWithPathList(name, path_list, exclude_path, reads) ==
  IF path_list = <<>> THEN Returned(NoPath, <<>>, reads, <<"No PATH variable">>)
  ELSE LET r == FindExecutableInPath(name, path_list, Exclude(exclude_path))
       IN Returned(r.value, r.probes, reads, <<>>)

\* A slip in find_executable: the test for an absolute name left out.
FindExecutable_NoAbsoluteTest(name, config_path, env_path, exclude_path) ==
  IF config_path # <<>>
  THEN {FindWithPathList(name, config_path, exclude_path, <<"config.path">>)}
  ELSE {IF a.crashed THEN Crashed(<<"config.path", "getenv">>)
        ELSE FindWithPathList(name, a.path_list, exclude_path, <<"config.path", "getenv">>)
          : a \in AssignEnvOutcomes(env_path)}

\* find_executable(ctx, name, exclude_path): the set of its possible outcomes.
FindExecutable(name, config_path, env_path, exclude_path) ==
  IF IsAbsolute(name) THEN {Returned(name, <<>>, <<>>, <<>>)}
  ELSE IF config_path # <<>>
       THEN {FindWithPathList(name, config_path, exclude_path, <<"config.path">>)}
       ELSE {IF a.crashed THEN Crashed(<<"config.path", "getenv">>)
             ELSE FindWithPathList(name, a.path_list, exclude_path, <<"config.path", "getenv">>)
               : a \in AssignEnvOutcomes(env_path)}

-----------------------------------------------------------------------------
(* The resolver's specification: Init draws a call and a file system, the   *)
(* actions run the call.                                                    *)

NoCall == [fn |-> "none", name |-> NoPath, path_list |-> <<>>, exclude_path |-> NoExclude,
           config_path |-> <<>>, env_path |-> EnvUnset]
NoRet == [outcome |-> "none", value |-> NoPath, probes |-> <<>>, reads |-> <<>>, log |-> <<>>]

ExcludePaths == FsPaths \cup {<<"a", "gone">>}

InPathCalls ==
  [fn : {"find_executable_in_path"}, name : {RelativeName},
   path_list : PathLists(MaxPathLen),
   exclude_path : {NoExclude} \cup {Exclude(p) : p \in ExcludePaths},
   config_path : {<<>>}, env_path : {EnvUnset}]

FindCalls ==
  [fn : {"find_executable"}, name : {RelativeName, RootedName, DriveName},
   path_list : {<<>>},
   exclude_path : {Exclude(p) : p \in {NoPath, <<"a", CompilerName>>, CcachePath}},
   config_path : PathLists(MaxEnvLen),
   env_path : {EnvUnset} \cup {EnvSet(v) : v \in PathLists(MaxEnvLen)}]

\* The values of the launchers' and the shell detector's variables while the
\* resolver alone is exercised.
NoShCall == [ext |-> "", env_path |-> EnvUnset, detect |-> FALSE, readable |-> FALSE,
             content |-> <<>>]

ShellIdle ==
  /\ shcall = NoShCall
  /\ shret = [outcome |-> "none", sh |-> NoPath]

WinIdle ==
  wl = [pc |-> "idle", doreturn |-> TRUE, redirect |-> FALSE, arglen |-> 0,
       in_job |-> FALSE, flags |-> {}, job |-> "null", sh |-> NoPath,
       fds |-> "none", tmp |-> "none", ntmp |-> 0, proc |-> "none", hproc |-> "none",
       hthread |-> "none", resumed |-> FALSE, exitcode |-> [hi |-> 0, lo |-> 0], error |-> "none",
       kind |-> "none", value |-> 0, was_in_job |-> FALSE, kill |-> FALSE,
       breakaway |-> FALSE, assigned |-> FALSE, waited |-> FALSE]

PosixIdle ==
  /\ entry = "none"
  /\ pc = "idle"
  /\ compiler_pid = 0
  /\ sigBlocked = FALSE
  /\ pfds = [out |-> FALSE, err |-> FALSE]
  /\ child = [pc |-> "none", pid |-> 0, out |-> FALSE, err |-> FALSE,
              stdout |-> "inherited", stderr |-> "inherited",
              fate |-> [kind |-> "none", code |-> 0, sig |-> 0, core |-> 0]]
  /\ status = 0
  /\ waitlog = <<>>
  /\ ret = [kind |-> "none", value |-> 0]
  /\ sigseen = [ran |-> FALSE, pid |-> 0, target |-> "none"]

InitFind ==
  /\ PosixIdle
  /\ ShellIdle
  /\ WinIdle
  /\ win \in BOOLEAN
  /\ fs \in FileSystems
  /\ fcall \in InPathCalls \cup FindCalls
  /\ fret = NoRet

CallFindExecutableInPath ==
  /\ fcall.fn = "find_executable_in_path"
  /\ fret.outcome = "none"
  /\ LET r == FindExecutableInPath(fcall.name, fcall.path_list, fcall.exclude_path)
     IN fret' = Returned(r.value, r.probes, <<>>, <<>>)
  /\ UNCHANGED <<win, fs, fcall, posixVars, shellVars, wl>>

CallFindExecutable ==
  /\ fcall.fn = "find_executable"
  /\ fret.outcome = "none"
  /\ fret' \in FindExecutable(fcall.name, fcall.config_path, fcall.env_path,
                              fcall.exclude_path.path)
  /\ UNCHANGED <<win, fs, fcall, posixVars, shellVars, wl>>

NextFind == CallFindExecutableInPath \/ CallFindExecutable

SpecFind == InitFind /\ [][NextFind]_vars

-----------------------------------------------------------------------------
(* Properties of the resolver *)

InPathReturned ==
  fcall.fn = "find_executable_in_path" /\ fret.outcome = "returned"

\* The canonical form of the call's exclude path: NoPath when none was given
\* or when it has no canonical form.
RealExclude ==
  IF fcall.exclude_path.has THEN Canonical(fcall.exclude_path.path) ELSE NoPath

\* C5: find_executable_in_path never returns a candidate whose canonical path
\* is the canonical exclude path, whatever the path list and the symbolic
\* links, also when the candidate's own path differs from the exclude path.
C5_ExcludedNeverReturned ==
  (InPathReturned /\ fret.value # NoPath /\ RealExclude # NoPath) =>
    Canonical(fret.value) # RealExclude

\* A search that passed over an existing candidate because it is a link to the
\* excluded file under another path, and then returned a later candidate.
C5_Witness ==
  /\ InPathReturned
  /\ fret.value # NoPath
  /\ RealExclude # NoPath
  /\ \E i \in 1..Len(fret.probes) :
       /\ fret.probes[i] # fret.value
       /\ fret.probes[i] # fcall.exclude_path.path
       /\ Entry(fret.probes[i]).kind = "link"
       /\ Canonical(fret.probes[i]) = RealExclude
       /\ ~IsCcacheExecutable(RealExclude)

\* The candidates of the call in the order the claim gives: directories left
\* to right, in each the plain name and then, on Windows, the name with .exe.
ClaimedOrder ==
  LET dirs == SplitPathList(fcall.path_list)
      m == IF win THEN 2 ELSE 1
  IN [k \in 1..(m * Len(dirs)) |->
        <<dirs[((k - 1) \div m) + 1],
          IF (k - 1) % m = 0 THEN CompilerName ELSE ExeSuffixed(CompilerName)>>]

\* The three conditions of the claim on one candidate.
ClaimedValid(c) ==
  /\ IF win THEN IsRegularFile(c) ELSE AccessX(c)
  /\ Canonical(c) # NoPath /\ Canonical(c) # RealExclude
  /\ ~IsCcacheExecutable(Canonical(c))

\* C6: find_executable_in_path returns the first candidate of that order that
\* exists and is executable, does not canonicalize to the canonical exclude
\* path and does not canonicalize to a ccache executable; it tests the
\* candidates up to that one and no later one; the result is empty exactly
\* when no candidate satisfies the three conditions.
C6_FirstValidCandidateWins ==
  InPathReturned =>
    LET cs == ClaimedOrder
        valid == {k \in 1..Len(cs) : ClaimedValid(cs[k])}
    IN IF valid = {}
       THEN fret.value = NoPath /\ fret.probes = cs
       ELSE LET first == CHOOSE k \in valid : \A j \in valid : k <= j
            IN fret.value = cs[first] /\ fret.probes = SubSeq(cs, 1, first)

\* A search that skipped an existing candidate, returned a later one and left
\* a valid candidate after it untested.
C6_Witness ==
  /\ InPathReturned
  /\ fret.value # NoPath
  /\ \E i \in 1..Len(fret.probes) :
       /\ fret.probes[i] # fret.value
       /\ Canonical(fret.probes[i]) # NoPath
  /\ \E k \in 1..Len(ClaimedOrder) :
       /\ k > Len(fret.probes)
       /\ ClaimedOrder[k] # fret.value
       /\ ClaimedValid(ClaimedOrder[k])

FindReturnedOrCrashed ==
  fcall.fn = "find_executable" /\ fret.outcome # "none"

\* An absolute name, by the platform's rule: a root directory on POSIX, a
\* root name and a root directory on Windows.
ClaimedAbsolute(n) == IF win THEN n = DriveName ELSE n = RootedName

\* C7: for an absolute name find_executable returns the name unchanged,
\* whatever the configured path, the PATH value (unset or empty included) and
\* the exclude path, and it reads no search path and tests no candidate.
C7_AbsoluteNameUnchanged ==
  (FindReturnedOrCrashed /\ ClaimedAbsolute(fcall.name)) =>
    /\ fret.outcome = "returned"
    /\ fret.value = fcall.name
    /\ fret.reads = <<>>
    /\ fret.probes = <<>>

\* An absolute name resolved with no configured path and PATH unset.
C7_Witness ==
  /\ FindReturnedOrCrashed
  /\ ClaimedAbsolute(fcall.name)
  /\ fcall.config_path = <<>>
  /\ ~fcall.env_path.set
  /\ fret.value = fcall.name

\* C8 (as claimed): for a name that is not absolute, with an empty configured
\* path and PATH unset or empty, find_executable completes with an empty
\* result and a log entry; it does not throw or crash.
C8_MissingPathIsReported ==
  (/\ FindReturnedOrCrashed
   /\ ~ClaimedAbsolute(fcall.name)
   /\ fcall.config_path = <<>>
   /\ (~fcall.env_path.set \/ fcall.env_path.value = <<>>)) =>
    /\ fret.outcome = "returned"
    /\ fret.value = NoPath
    /\ fret.log = <<"No PATH variable">>

-----------------------------------------------------------------------------
(* The Windows shell detector: win32getshell *)

\* char buf[10]
BufSize == 10

\* A file's content and a C string are sequences of characters.
Shebang == <<"#", "!", "/", "b", "i", "n", "/", "s", "h">>
Newline == "\n"

\* fgets(buf, size, fp) on a zeroed buffer, read back as a string: at most
\* size - 1 characters, ending after the first newline.
RECURSIVE Fgets(_, _)
Fgets(content, size) ==
  IF size <= 1 \/ content = <<>> THEN <<>>
  ELSE IF Head(content) = Newline THEN <<Newline>>
  ELSE <<Head(content)>> \o Fgets(Tail(content), size - 1)

\* util::to_lowercase on the extensions the model uses.
ToLowercase(ext) == IF ext \in {".SH", ".Sh", ".sH"} THEN ".sh" ELSE ext

ShellName == <<"sh.exe">>

\* fgets(buf, sizeof(buf) - 1, fp.get()); std::string(buf)
ReadFirstLine(content) == Fgets(content, BufSize - 1)

\* win32getshell(path): c gives the path's extension, getenv("PATH"), whether
\* CCACHE_DETECT_SHEBANG is set, whether the file opens, and its content.
Win32GetShell(c) ==
  LET path_list == c.env_path
      lookup == FindExecutableInPath(ShellName, path_list.value, NoExclude).value
      sh1 == IF ToLowercase(c.ext) = ".sh" /\ path_list.set THEN lookup ELSE NoPath
  IN IF sh1 = NoPath /\ c.detect
     THEN IF c.readable /\ ReadFirstLine(c.content) = Shebang /\ path_list.set
          THEN lookup
          ELSE sh1
     ELSE sh1

-----------------------------------------------------------------------------
(* The shell detector's specification *)

ShellFsPaths == {<<"a", "sh.exe">>, <<"b", "sh.exe.exe">>}

ShellFileSystems == [ShellFsPaths -> {Absent, File(TRUE)}]

FileContents ==
  {<<>>, Shebang, Shebang \o <<Newline>>, Shebang \o <<Newline, "x">>,
   Shebang \o <<" ", "-", "e", Newline>>, SubSeq(Shebang, 1, 8), <<"M", "Z">>}

ShellCalls ==
  [ext : {".sh", ".SH", ".exe", ""},
   env_path : {EnvUnset} \cup {EnvSet(v) : v \in PathLists(MaxEnvLen)},
   detect : BOOLEAN, readable : BOOLEAN, content : FileContents]

InitShell ==
  /\ win = TRUE
  /\ fs \in ShellFileSystems
  /\ fcall = NoCall
  /\ fret = NoRet
  /\ PosixIdle
  /\ WinIdle
  /\ shcall \in ShellCalls
  /\ shret = [outcome |-> "none", sh |-> NoPath]

CallWin32GetShell ==
  /\ shret.outcome = "none"
  /\ shret' = [outcome |-> "returned", sh |-> Win32GetShell(shcall)]
  /\ UNCHANGED <<win, findVars, posixVars, shcall, wl>>

NextShell == CallWin32GetShell

SpecShell == InitShell /\ [][NextShell]_vars

\* The first line of a file: its content up to the first newline.
RECURSIVE FirstLine(_)
FirstLine(content) ==
  IF content = <<>> \/ Head(content) = Newline THEN <<>>
  ELSE <<Head(content)>> \o FirstLine(Tail(content))

\* The sh.exe the PATH value of the call resolves to, NoPath if none.
ResolvedShell ==
  IF shcall.env_path.set
  THEN FindExecutableInPath(ShellName, shcall.env_path.value, NoExclude).value
  ELSE NoPath

\* C10 (as claimed): with CCACHE_DETECT_SHEBANG set, PATH set and holding a
\* resolvable sh.exe, and a target without the .sh extension whose first line
\* is exactly #!/bin/sh, win32getshell returns the resolved sh.exe; with the
\* flag unset and an extension other than .sh it returns the empty string.
C10_ShebangDetected ==
  shret.outcome = "returned" =>
    /\ (/\ shcall.detect
        /\ ResolvedShell # NoPath
        /\ ToLowercase(shcall.ext) # ".sh"
        /\ shcall.readable
        /\ FirstLine(shcall.content) = Shebang) =>
         shret.sh = ResolvedShell
    /\ (~shcall.detect /\ ToLowercase(shcall.ext) # ".sh") => shret.sh = NoPath

-----------------------------------------------------------------------------
(* The Windows launcher: win32execute *)

\* if (args.length() > 8192)
CmdLineLimit == 8192

\* Lengths of the rendered command line.
ArgLengths == {100, CmdLineLimit, CmdLineLimit + 1}

\* A DWORD as its two 16-bit halves.
Dword(hi, lo) == [hi |-> hi, lo |-> lo]

\* Exit codes of a Windows process: 0, 1, 255 and 0xFFFFFFFF.
DwordExitCodes == {Dword(0, 0), Dword(0, 1), Dword(0, 255), Dword(65535, 65535)}

\* return exitcode: a DWORD returned as an int, two's complement.
DwordToInt(d) ==
  IF d.hi >= 32768 THEN (d.hi - 65536) * 65536 + d.lo ELSE d.hi * 65536 + d.lo

\* A slip in the scope's end: the finalizer left out.
WinReturn_NoFinalizer(st, v, err) ==
  [st EXCEPT !.pc = "returned", !.kind = "returned", !.value = v, !.error = err]

\* A return statement: the function's scope ends, so tmp_file_remover runs
\* and removes the temporary file if one was recorded.
WinReturn(st, v, err) ==
  [st EXCEPT !.pc = "returned", !.kind = "returned", !.value = v, !.error = err,
             !.tmp = IF @ = "exists" THEN "removed" ELSE @]

WinFrame == UNCHANGED <<win, findVars, posixVars, shellVars>>

\* A slip in the flags: the break-away child not created suspended.
JobDecision_BreakawayRunning(is_process_in_job, is_kill_active, allow_break_away) ==
  IF is_process_in_job
  THEN IF ~is_kill_active /\ allow_break_away
       THEN [in_job |-> FALSE, flags |-> {"CREATE_BREAKAWAY_FROM_JOB"}]
       ELSE [in_job |-> TRUE, flags |-> {}]
  ELSE [in_job |-> FALSE, flags |-> {"CREATE_SUSPENDED"}]

\* is_process_in_job and dw_creation_flags after the test of the limit flags:
\* a process outside any job gets CREATE_SUSPENDED; one inside a job that
\* allows break-away and does not kill on close is treated as outside a job
\* and gets CREATE_BREAKAWAY_FROM_JOB | CREATE_SUSPENDED; any other process
\* inside a job keeps is_process_in_job and the flags stay 0.
JobDecision(is_process_in_job, is_kill_active, allow_break_away) ==
  IF is_process_in_job
  THEN IF ~is_kill_active /\ allow_break_away
       THEN [in_job |-> FALSE, flags |-> {"CREATE_BREAKAWAY_FROM_JOB", "CREATE_SUSPENDED"}]
       ELSE [in_job |-> TRUE, flags |-> {}]
  ELSE [in_job |-> FALSE, flags |-> {"CREATE_SUSPENDED"}]

\* if (!is_process_in_job): the job is created, or creation is skipped.
AfterJobDecision(st, d) ==
  [st EXCEPT !.in_job = d.in_job, !.flags = d.flags,
             !.pc = IF d.in_job THEN "getshell" ELSE "create_job"]

\* IsProcessInJob(GetCurrentProcess(), nullptr, &is_process_in_job)
WinIsProcessInJob ==
  /\ wl.pc = "start"
  /\ \/ wl' = WinReturn(wl, 0, "IsProcessInJob")
     \/ wl' = [wl EXCEPT !.in_job = TRUE, !.was_in_job = TRUE, !.pc = "query"]
     \/ wl' = AfterJobDecision(wl, JobDecision(FALSE, FALSE, FALSE))
  /\ WinFrame

\* QueryInformationJobObject and the test of the limit flags.
WinQueryJob ==
  /\ wl.pc = "query"
  /\ \/ wl' = WinReturn(wl, 0, "QueryInformationJobObject")
     \/ \E is_kill_active \in BOOLEAN, allow_break_away \in BOOLEAN :
          wl' = AfterJobDecision(
                  [wl EXCEPT !.kill = is_kill_active, !.breakaway = allow_break_away],
                  JobDecision(TRUE, is_kill_active, allow_break_away))
  /\ WinFrame

\* job = CreateJobObject(nullptr, nullptr), entered when !is_process_in_job
WinCreateJob ==
  /\ wl.pc = "create_job"
  /\ \/ wl' = WinReturn(wl, -1, "CreateJobObject")
     \/ wl' = [wl EXCEPT !.job = "open", !.pc = "set_job"]
  /\ WinFrame

\* SetInformationJobObject(job, ...)
WinSetJobInformation ==
  /\ wl.pc = "set_job"
  /\ \/ wl' = WinReturn(wl, -1, "SetInformationJobObject")
     \/ wl' = [wl EXCEPT !.pc = "getshell"]
  /\ WinFrame

\* std::string sh = win32getshell(path)
WinGetShell ==
  /\ wl.pc = "getshell"
  /\ \E c \in ShellCalls : wl' = [wl EXCEPT !.sh = Win32GetShell(c), !.pc = "handles"]
  /\ WinFrame

\* The standard handles of the STARTUPINFO: any of them may be invalid.
WinStdHandles ==
  /\ wl.pc = "handles"
  /\ \/ wl' = WinReturn(wl, -1, "INVALID_HANDLE_VALUE")
     \/ wl' = [wl EXCEPT !.pc = "format"]
  /\ WinFrame

\* The command line, and the response file when it is too long.
\* TemporaryFile::create may fail, and value_or_throw then throws core::Fatal.
WinFormatArgs ==
  /\ wl.pc = "format"
  /\ IF wl.arglen > CmdLineLimit
     THEN \/ wl' = [wl EXCEPT !.pc = "thrown", !.kind = "fatal",
                              !.error = "TemporaryFile::create"]
          \/ wl' = [wl EXCEPT !.tmp = "exists", !.ntmp = @ + 1, !.pc = "create_process"]
     ELSE wl' = [wl EXCEPT !.pc = "create_process"]
  /\ WinFrame

\* CreateProcess, then close(fd_stdout); close(fd_stderr) if redirected.
WinCreateProcess ==
  /\ wl.pc = "create_process"
  /\ LET closed == [wl EXCEPT !.fds = IF wl.redirect THEN "closed" ELSE @]
     IN \/ wl' = WinReturn(closed, -1, "CreateProcess")
        \/ wl' = [closed EXCEPT
                    !.proc = IF "CREATE_SUSPENDED" \in wl.flags THEN "suspended" ELSE "running",
                    !.hproc = "open", !.hthread = "open",
                    !.pc = IF wl.job = "open" THEN "assign" ELSE "wait"]
  /\ WinFrame

\* A slip in the failure branch: the return after TerminateProcess left out.
AfterAssign_NoReturn(st, assign_success) ==
  IF assign_success
  THEN [st EXCEPT !.assigned = TRUE, !.pc = "resume"]
  ELSE [st EXCEPT !.proc = "terminated", !.error = "AssignProcessToJobObject",
                  !.pc = "resume"]

\* if (!assign_success) { TerminateProcess(pi.hProcess, 1); ... return -1; }
AfterAssign(st, assign_success) ==
  IF assign_success
  THEN [st EXCEPT !.assigned = TRUE, !.pc = "resume"]
  ELSE WinReturn([st EXCEPT !.proc = "terminated"], -1, "AssignProcessToJobObject")

\* AssignProcessToJobObject(job, pi.hProcess)
WinAssignJob ==
  /\ wl.pc = "assign"
  /\ \E assign_success \in BOOLEAN : wl' = AfterAssign(wl, assign_success)
  /\ WinFrame

\* ResumeThread(pi.hThread)
WinResumeThread ==
  /\ wl.pc = "resume"
  /\ wl' = [wl EXCEPT !.proc = IF @ = "suspended" THEN "running" ELSE @,
                      !.resumed = TRUE, !.pc = "wait"]
  /\ WinFrame

\* The child process runs to its end.
WinChildExits ==
  /\ wl.proc = "running"
  /\ \E code \in DwordExitCodes : wl' = [wl EXCEPT !.proc = "exited", !.exitcode = code]
  /\ WinFrame

\* CloseHandle(pi.hProcess); CloseHandle(pi.hThread); CloseHandle(job);
ReleaseHandles(st) ==
  [st EXCEPT !.hproc = "closed", !.hthread = "closed",
             !.job = IF @ = "open" THEN "closed" ELSE @]

\* WaitForSingleObject(pi.hProcess, INFINITE) returns once the process has
\* ended; then GetExitCodeProcess, the three CloseHandle calls, and
\* exit(exitcode) or return exitcode.  exit does not unwind the stack, so the
\* finalizer does not run on that path.
WinWaitAndFinish ==
  /\ wl.pc = "wait"
  /\ wl.proc \in {"exited", "terminated"}
  /\ LET closed == ReleaseHandles([wl EXCEPT !.waited = TRUE])
     IN IF wl.doreturn
        THEN wl' = WinReturn(closed, DwordToInt(wl.exitcode), "none")
        ELSE wl' = [closed EXCEPT !.pc = "exited", !.kind = "exited",
                                  !.value = DwordToInt(wl.exitcode)]
  /\ WinFrame

-----------------------------------------------------------------------------
(* The Windows launcher's specification *)

\* execute passes doreturn = 1 and the two sink descriptors; execute_noreturn
\* passes doreturn = 0 and -1, -1.
InitWin ==
  /\ win = TRUE
  /\ fs \in ShellFileSystems
  /\ fcall = NoCall
  /\ fret = NoRet
  /\ PosixIdle
  /\ ShellIdle
  /\ \E doreturn \in BOOLEAN, arglen \in ArgLengths :
       wl = [pc |-> "start", doreturn |-> doreturn, redirect |-> doreturn,
             arglen |-> arglen, in_job |-> FALSE, flags |-> {}, job |-> "null",
             sh |-> NoPath, fds |-> IF doreturn THEN "open" ELSE "none",
             tmp |-> "none", ntmp |-> 0, proc |-> "none", hproc |-> "none",
             hthread |-> "none", resumed |-> FALSE, exitcode |-> [hi |-> 0, lo |-> 0], error |-> "none",
             kind |-> "none", value |-> 0, was_in_job |-> FALSE, kill |-> FALSE,
             breakaway |-> FALSE, assigned |-> FALSE, waited |-> FALSE]

NextWin ==
  \/ WinIsProcessInJob \/ WinQueryJob \/ WinCreateJob \/ WinSetJobInformation
  \/ WinGetShell \/ WinStdHandles \/ WinFormatArgs \/ WinCreateProcess
  \/ WinAssignJob \/ WinResumeThread \/ WinChildExits \/ WinWaitAndFinish

SpecWin == InitWin /\ [][NextWin]_vars

\* C9 (as claimed): a launch returns 0 only when a child process was created,
\* ran to its end and exited with code 0; every launch error is reported by
\* a value that is not a normal exit code (0..255).
C9_OutcomesDistinguishable ==
  wl.kind = "returned" =>
    /\ wl.value = 0 => (wl.proc = "exited" /\ wl.exitcode = Dword(0, 0))
    /\ wl.error # "none" => wl.value \notin 0..255

\* C11: a launch creates at most one temporary response file, and only for a
\* command line longer than 8192 characters; whenever win32execute returns to
\* its caller after creating it (the child ran to its end, CreateProcess
\* failed, or the assignment to the job failed) the file no longer exists.
C11_TempFileRemovedOnReturn ==
  /\ wl.ntmp <= 1
  /\ wl.ntmp > 0 => wl.arglen > CmdLineLimit
  /\ (wl.kind = "returned" /\ wl.ntmp > 0) => wl.tmp = "removed"

C11_Witness ==
  /\ wl.kind = "returned"
  /\ wl.error = "AssignProcessToJobObject"
  /\ wl.arglen > CmdLineLimit
  /\ wl.ntmp = 1
  /\ wl.tmp = "removed"

\* C12 (as claimed): when redirection was requested, the two sink descriptors
\* are closed on every path by which the launch call ends, the failure returns
\* before process creation included.
C12_SinksClosedOnEveryPath ==
  (wl.redirect /\ wl.kind # "none") => wl.fds = "closed"

\* A child process was created by this launch.
WinChildCreated == wl.hproc # "none"

\* C16 (as claimed): a launcher inside a job whose limit flags have neither
\* kill-on-close nor break-away creates a fresh job and assigns the child to
\* it; with break-away allowed and kill-on-close not set the child is created
\* with the break-away and suspended flags and assigned to a fresh job.
C16_FreshJobWhenInJob ==
  /\ (wl.was_in_job /\ ~wl.kill /\ ~wl.breakaway /\ WinChildCreated) => wl.job # "null"
  /\ (wl.was_in_job /\ ~wl.kill /\ ~wl.breakaway /\ wl.waited) => wl.assigned
  /\ (wl.was_in_job /\ ~wl.kill /\ wl.breakaway /\ WinChildCreated) =>
       /\ wl.flags = {"CREATE_BREAKAWAY_FROM_JOB", "CREATE_SUSPENDED"}
       /\ wl.job # "null"
  /\ (wl.was_in_job /\ ~wl.kill /\ wl.breakaway /\ wl.waited) => wl.assigned

\* C17: when the assignment of the new process to the fresh job fails, the
\* launcher terminates the process and returns -1 without resuming the thread
\* or waiting for the process; when it succeeds, the thread has been resumed
\* by the time the launcher waits.
C17_AssignFailureTerminates ==
  /\ wl.error = "AssignProcessToJobObject" =>
       /\ wl.kind = "returned" /\ wl.value = -1
       /\ wl.proc = "terminated"
       /\ ~wl.resumed /\ ~wl.waited
  /\ (wl.assigned /\ wl.pc \in {"wait", "returned", "exited"}) => wl.resumed
  /\ (wl.waited /\ wl.job # "null") => (wl.assigned /\ wl.resumed)
  /\ wl.resumed => wl.assigned

C17_Witness ==
  /\ wl.kind = "returned"
  /\ wl.error = "AssignProcessToJobObject"
  /\ wl.job # "null"
  /\ wl.proc = "terminated"
  /\ wl.value = -1

\* C18 (as claimed): when doreturn is false and a temporary response file was
\* created, the file has been removed by the time the process terminates with
\* the child's exit code.
C18_TempFileRemovedOnExit ==
  (wl.kind = "exited" /\ wl.ntmp > 0) => wl.tmp = "removed"

\* C19: at process creation the suspended flag is set exactly when a fresh job
\* was created; a child created suspended has been resumed when the launcher
\* waits, or was terminated after a failed assignment; a child created running
\* is never resumed; so the launcher never waits on a suspended child.
C19_SuspendedIffFreshJob ==
  /\ (wl.pc = "create_process" \/ WinChildCreated) =>
       (("CREATE_SUSPENDED" \in wl.flags) <=> (wl.job # "null"))
  /\ (WinChildCreated /\ "CREATE_SUSPENDED" \in wl.flags /\ wl.pc \in {"wait", "returned", "exited"})
       => (wl.resumed \/ wl.proc = "terminated")
  /\ wl.resumed => "CREATE_SUSPENDED" \in wl.flags
  /\ wl.pc = "wait" => wl.proc # "suspended"

C19_Witness ==
  /\ wl.pc = "wait"
  /\ wl.flags = {"CREATE_BREAKAWAY_FROM_JOB", "CREATE_SUSPENDED"}
  /\ wl.job = "open"
  /\ wl.resumed
  /\ wl.proc = "running"

\* C20 (as claimed): whenever win32execute returns, the job object it
\* created and the process and thread handles it received have been released.
C20_HandlesReleasedOnReturn ==
  wl.kind = "returned" =>
    (wl.job # "open" /\ wl.hproc # "open" /\ wl.hthread # "open")

-----------------------------------------------------------------------------
(* The POSIX launcher: wait statuses *)

\* How a child ended.
NoFate == [kind |-> "none", code |-> 0, sig |-> 0, core |-> 0]
Exited(code) == [kind |-> "exited", code |-> code, sig |-> 0, core |-> 0]
Signaled(sig, core) == [kind |-> "signaled", code |-> 0, sig |-> sig, core |-> core]

ExitCodes == {0, 1, 2, 255}
Signals == {9, 15}
ChildPids == {101, 102}

\* exit(n): the status the parent sees is n's low eight bits.
ExitStatusOf(n) == n % 256

\* The raw status waitpid stores: the exit code in bits 8..15 for a child that
\* exited; the signal number in bits 0..6 and the core flag in bit 7 for a
\* child that a signal killed.  POSIX leaves bits 8..15 of a killed child's
\* status unspecified, so they may hold any value.
WaitStatuses(fate) ==
  IF fate.kind = "exited" THEN {ExitStatusOf(fate.code) * 256}
  ELSE {field * 256 + fate.core * 128 + fate.sig : field \in ExitCodes}

\* A slip in the decoding: the low byte taken for the exit code.
WEXITSTATUS_LowByte(s) == s % 256

WEXITSTATUS(s) == (s \div 256) % 256
WTERMSIG(s) == s % 128
WIFSIGNALED(s) == WTERMSIG(s) >= 1 /\ WTERMSIG(s) <= 126

\* A slip in the outcome: the signal test left out.
ExitOutcome_NoSignalTest(s) == WEXITSTATUS(s)

\* The value execute returns for a reaped child's status.
ExitOutcome(s) ==
  IF WEXITSTATUS(s) = 0 /\ WIFSIGNALED(s) THEN -1 ELSE WEXITSTATUS(s)

\* One result of waitpid(ctx.compiler_pid, &status, 0).
WaitResult(result, errno) == [result |-> result, errno |-> errno]

\* A slip in the loop: every failed wait retried, whatever errno says.
WaitLoopStep_RetryAnyFailure(w, pid) ==
  IF w.result = pid THEN "leave"
  ELSE IF w.result = -1 THEN "continue"
  ELSE "throw"

\* What the wait loop does with a result: leave the loop, call again, or throw.
WaitLoopStep(w, pid) ==
  IF w.result = pid THEN "leave"
  ELSE IF w.result = -1 /\ w.errno = "EINTR" THEN "continue"
  ELSE "throw"

-----------------------------------------------------------------------------
(* The POSIX launcher: execute, in the calling process *)

Fatal == [kind |-> "fatal", value |-> 0]
Return(v) == [kind |-> "returned", value |-> v]

\* A slip in the critical section: the fork not covered by a blocker.
BlockForFork_NoBlocker ==
  /\ entry = "execute" /\ pc = "start"
  /\ pc' = "fork"
  /\ UNCHANGED <<win, findVars, shellVars, wl, sigseen, entry, compiler_pid, sigBlocked, pfds, child, status, waitlog, ret>>

\* SignalHandlerBlocker signal_handler_blocker; (before fork)
BlockForFork ==
  /\ entry = "execute" /\ pc = "start"
  /\ sigBlocked' = TRUE
  /\ pc' = "fork"
  /\ UNCHANGED <<win, findVars, shellVars, wl, sigseen, entry, compiler_pid, pfds, child, status, waitlog, ret>>

\* ctx.compiler_pid = fork(): no child and -1, or a child that holds copies of
\* the caller's open descriptors.
Fork ==
  /\ pc = "fork"
  /\ \/ /\ compiler_pid' = -1
        /\ UNCHANGED child
     \/ \E pid \in ChildPids :
          /\ compiler_pid' = pid
          /\ child' = [child EXCEPT !.pc = "dup_out", !.pid = pid,
                                    !.out = pfds.out, !.err = pfds.err]
  /\ pc' = "unblock_fork"
  /\ UNCHANGED <<win, findVars, shellVars, wl, sigseen, entry, sigBlocked, pfds, status, waitlog, ret>>

\* The blocker's scope ends.
UnblockAfterFork ==
  /\ pc = "unblock_fork"
  /\ sigBlocked' = FALSE
  /\ pc' = "check_fork"
  /\ UNCHANGED <<win, findVars, shellVars, wl, sigseen, entry, compiler_pid, pfds, child, status, waitlog, ret>>

\* if (ctx.compiler_pid == -1) throw core::Fatal
CheckFork ==
  /\ pc = "check_fork"
  /\ IF compiler_pid = -1
     THEN pc' = "thrown" /\ ret' = Fatal
     ELSE pc' = "close_out" /\ UNCHANGED ret
  /\ UNCHANGED <<win, findVars, shellVars, wl, sigseen, entry, compiler_pid, sigBlocked, pfds, child, status, waitlog>>

\* A slip in the parent: its copy of fd_out left open.
ParentCloseOut_Skip ==
  /\ pc = "close_out"
  /\ pc' = "close_err"
  /\ UNCHANGED <<win, findVars, shellVars, wl, sigseen, entry, compiler_pid, sigBlocked, pfds, child, status, waitlog, ret>>

\* fd_out.close();
ParentCloseOut ==
  /\ pc = "close_out"
  /\ pfds' = [pfds EXCEPT !.out = FALSE]
  /\ pc' = "close_err"
  /\ UNCHANGED <<win, findVars, shellVars, wl, sigseen, entry, compiler_pid, sigBlocked, child, status, waitlog, ret>>

\* fd_err.close();
ParentCloseErr ==
  /\ pc = "close_err"
  /\ pfds' = [pfds EXCEPT !.err = FALSE]
  /\ pc' = "wait"
  /\ UNCHANGED <<win, findVars, shellVars, wl, sigseen, entry, compiler_pid, sigBlocked, child, status, waitlog, ret>>

\* What a waitpid call can give: the child's pid and its status once it has
\* ended, or -1 with EINTR (a signal arrived) or with ECHILD.
WaitResults ==
  (IF child.pc = "zombie" THEN {WaitResult(compiler_pid, "none")} ELSE {})
    \cup (IF Len(waitlog) < MaxEintr THEN {WaitResult(-1, "EINTR")} ELSE {})
    \cup {WaitResult(-1, "ECHILD")}

\* One turn of the wait loop.
Waitpid ==
  /\ pc = "wait"
  /\ \E w \in WaitResults :
       /\ waitlog' = Append(waitlog, w)
       /\ LET step == WaitLoopStep(w, compiler_pid)
          IN /\ pc' = CASE step = "leave" -> "block_clear"
                        [] step = "continue" -> "wait"
                        [] OTHER -> "thrown"
             /\ ret' = IF step = "throw" THEN Fatal ELSE ret
       /\ IF w.result = compiler_pid
          THEN /\ status' \in WaitStatuses(child.fate)
               /\ child' = [child EXCEPT !.pc = "reaped"]
          ELSE UNCHANGED <<status, child>>
  /\ UNCHANGED <<win, findVars, shellVars, wl, sigseen, entry, compiler_pid, sigBlocked, pfds>>

\* SignalHandlerBlocker signal_handler_blocker; (before clearing the pid)
BlockForClear ==
  /\ pc = "block_clear"
  /\ sigBlocked' = TRUE
  /\ pc' = "clear"
  /\ UNCHANGED <<win, findVars, shellVars, wl, sigseen, entry, compiler_pid, pfds, child, status, waitlog, ret>>

\* ctx.compiler_pid = 0;
ClearPid ==
  /\ pc = "clear"
  /\ compiler_pid' = 0
  /\ pc' = "unblock_clear"
  /\ UNCHANGED <<win, findVars, shellVars, wl, sigseen, entry, sigBlocked, pfds, child, status, waitlog, ret>>

UnblockAfterClear ==
  /\ pc = "unblock_clear"
  /\ sigBlocked' = FALSE
  /\ pc' = "derive"
  /\ UNCHANGED <<win, findVars, shellVars, wl, sigseen, entry, compiler_pid, pfds, child, status, waitlog, ret>>

\* The two return statements.
ReturnOutcome ==
  /\ pc = "derive"
  /\ ret' = Return(ExitOutcome(status))
  /\ pc' = "done"
  /\ UNCHANGED <<win, findVars, shellVars, wl, sigseen, entry, compiler_pid, sigBlocked, pfds, child, status, waitlog>>

-----------------------------------------------------------------------------
(* The POSIX launcher: the child process *)

ChildStep(from) ==
  /\ child.pc = from
  /\ UNCHANGED <<win, findVars, shellVars, wl, sigseen, entry, pc, compiler_pid, sigBlocked, pfds, status, waitlog, ret>>

\* dup2(*fd_out, STDOUT_FILENO);
ChildDupOut ==
  /\ ChildStep("dup_out")
  /\ child' = [child EXCEPT !.pc = "close_out",
                            !.stdout = IF child.out THEN "sink" ELSE @]

\* fd_out.close();
ChildCloseOut ==
  /\ ChildStep("close_out")
  /\ child' = [child EXCEPT !.pc = "dup_err", !.out = FALSE]

\* dup2(*fd_err, STDERR_FILENO);
ChildDupErr ==
  /\ ChildStep("dup_err")
  /\ child' = [child EXCEPT !.pc = "close_err",
                            !.stderr = IF child.err THEN "sink" ELSE @]

\* fd_err.close();
ChildCloseErr ==
  /\ ChildStep("close_err")
  /\ child' = [child EXCEPT !.pc = "execv", !.err = FALSE]

\* exit(execv(argv[0], argv)): the compiler's image runs, or execv returns -1
\* and the child exits with it.
ChildExecv ==
  /\ ChildStep("execv")
  /\ \/ child' = [child EXCEPT !.pc = "running"]
     \/ child' = [child EXCEPT !.pc = "zombie", !.fate = Exited(ExitStatusOf(-1))]

\* The compiler exits.
CompilerExits ==
  /\ ChildStep("running")
  /\ \E code \in ExitCodes :
       child' = [child EXCEPT !.pc = "zombie", !.fate = Exited(code)]

\* A signal kills the child, wherever it is.
ChildKilled ==
  /\ child.pc \in {"dup_out", "close_out", "dup_err", "close_err", "execv", "running"}
  /\ \E sig \in Signals, core \in {0, 1} :
       child' = [child EXCEPT !.pc = "zombie", !.fate = Signaled(sig, core)]
  /\ UNCHANGED <<win, findVars, shellVars, wl, sigseen, entry, pc, compiler_pid, sigBlocked, pfds, status, waitlog, ret>>

-----------------------------------------------------------------------------
(* The POSIX launcher: the signal handler and the next launch *)

\* The handler runs in the calling process whenever a termination signal is
\* delivered, which no live SignalHandlerBlocker prevents; the process is the
\* caller's until its image is replaced, a thrown core::Fatal included.
HandlerCanRun == ~sigBlocked /\ pc \notin {"idle", "replaced"}

\* The child has been forked and waitpid has not yet reaped it.
ChildUnreaped == child.pc \notin {"none", "reaped"}

\* Who a signal sent to the recorded pid reaches: nobody for 0, every
\* process the caller may signal for -1 (kill's meaning of that pid), the
\* child while it is unreaped, and otherwise a pid that is no longer ours.
PidTarget(pid) ==
  IF pid = 0 THEN "none"
  ELSE IF pid = -1 THEN "every process"
  ELSE IF pid = child.pid /\ ChildUnreaped THEN "child"
  ELSE "stale"

\* A termination signal arrives: the handler reads ctx.compiler_pid and
\* forwards the signal to that pid; a child that is still running dies of it
\* or handles it.
SignalHandler ==
  /\ HandlerCanRun
  /\ sigseen' = [ran |-> TRUE, pid |-> compiler_pid, target |-> PidTarget(compiler_pid)]
  /\ IF PidTarget(compiler_pid) = "child" /\ child.pc # "zombie"
     THEN \/ \E sig \in Signals :
               child' = [child EXCEPT !.pc = "zombie", !.fate = Signaled(sig, 0)]
          \/ UNCHANGED child
     ELSE UNCHANGED child
  /\ UNCHANGED <<win, findVars, shellVars, wl, entry, pc, compiler_pid, sigBlocked, pfds, status, waitlog, ret>>

\* The caller launches the next program (preprocessor, then compiler) with
\* fresh sink descriptors after a launch that returned.
ExecuteAgain ==
  /\ entry = "execute" /\ pc = "done"
  /\ pc' = "start"
  /\ pfds' = [out |-> TRUE, err |-> TRUE]
  /\ child' = [pc |-> "none", pid |-> 0, out |-> FALSE, err |-> FALSE,
               stdout |-> "inherited", stderr |-> "inherited", fate |-> NoFate]
  /\ status' = 0
  /\ waitlog' = <<>>
  /\ ret' = [kind |-> "none", value |-> 0]
  /\ UNCHANGED <<win, findVars, shellVars, wl, sigseen, entry, compiler_pid, sigBlocked>>

-----------------------------------------------------------------------------
(* The POSIX launcher: execute_noreturn *)

\* execv(argv[0], argv): the process image is replaced, or execv returns -1
\* and the function returns to its caller.
NoreturnExecv ==
  /\ entry = "execute_noreturn" /\ pc = "start"
  /\ \/ pc' = "replaced" /\ ret' = [kind |-> "replaced", value |-> 0]
     \/ pc' = "done" /\ ret' = Return(0)
  /\ UNCHANGED <<win, findVars, shellVars, wl, sigseen, entry, compiler_pid, sigBlocked, pfds, child, status, waitlog>>

-----------------------------------------------------------------------------
(* The POSIX launcher's specification *)

FindIdle ==
  /\ fs = [p \in {} |-> Absent]
  /\ fcall = NoCall
  /\ fret = NoRet

InitPosix ==
  /\ win = FALSE
  /\ FindIdle
  /\ ShellIdle
  /\ WinIdle
  /\ entry \in {"execute", "execute_noreturn"}
  /\ pc = "start"
  /\ compiler_pid = 0
  /\ sigBlocked = FALSE
  /\ pfds = [out |-> TRUE, err |-> TRUE]
  /\ child = [pc |-> "none", pid |-> 0, out |-> FALSE, err |-> FALSE,
              stdout |-> "inherited", stderr |-> "inherited", fate |-> NoFate]
  /\ status = 0
  /\ waitlog = <<>>
  /\ ret = [kind |-> "none", value |-> 0]
  /\ sigseen = [ran |-> FALSE, pid |-> 0, target |-> "none"]

NextPosix ==
  \/ BlockForFork \/ Fork \/ UnblockAfterFork \/ CheckFork
  \/ ParentCloseOut \/ ParentCloseErr \/ Waitpid
  \/ BlockForClear \/ ClearPid \/ UnblockAfterClear \/ ReturnOutcome
  \/ ChildDupOut \/ ChildCloseOut \/ ChildDupErr \/ ChildCloseErr
  \/ ChildExecv \/ CompilerExits \/ ChildKilled
  \/ NoreturnExecv
  \/ SignalHandler \/ ExecuteAgain

SpecPosix == InitPosix /\ [][NextPosix]_vars

-----------------------------------------------------------------------------
(* Properties of the POSIX launcher *)

ExecuteDone == entry = "execute" /\ pc = "done"

C2_NormalExitCodeReturned ==
  (ExecuteDone /\ child.fate.kind = "exited") => ret = Return(child.fate.code)

C2_Witness ==
  /\ ExecuteDone
  /\ child.fate = Exited(0)
  /\ ret = Return(0)

IsEintr(w) == w.result = -1 /\ w.errno = "EINTR"

\* C3: the wait loop calls waitpid again after a result exactly when that
\* result was an EINTR failure; after the child's pid the launch goes on to
\* return the child's outcome, however many interruptions came before; after
\* any other result the launch is aborted by the fatal error.
C3_WaitLoopRetriesOnlyEintr ==
  LET n == Len(waitlog)
  IN /\ \A i \in 1..(n - 1) : IsEintr(waitlog[i])
     /\ (n > 0 /\ IsEintr(waitlog[n])) => (pc = "wait" /\ ret.kind = "none")
     /\ (n > 0 /\ waitlog[n].result = child.pid /\ pc # "done") =>
          (pc \in {"block_clear", "clear", "unblock_clear", "derive"} /\ ret.kind = "none")
     /\ (n > 0 /\ ~IsEintr(waitlog[n]) /\ waitlog[n].result # child.pid) =>
          (pc = "thrown" /\ ret = Fatal)
     /\ ExecuteDone =>
          /\ n > 0 /\ waitlog[n].result = child.pid
          /\ ret.kind = "returned"
          /\ child.fate.kind = "exited" => ret.value = child.fate.code

C3_Witness ==
  /\ ExecuteDone
  /\ Len(waitlog) = MaxEintr + 1
  /\ \A i \in 1..MaxEintr : IsEintr(waitlog[i])
  /\ ret.kind = "returned"

\* C4 (as claimed): execute_noreturn never returns control to its caller.
C4_NoreturnNeverReturns ==
  entry = "execute_noreturn" => ret.kind # "returned"


\* C13 (as claimed): in every state where the signal handler can run and
\* ctx.compiler_pid is non-zero, that value is the pid of a child that has
\* been forked and not yet reaped, so the handler never finds the -1 of a
\* failed fork or the pid of a reaped child.
C13_HandlerSeesOnlyUnreapedChild ==
  (HandlerCanRun /\ compiler_pid # 0) => (compiler_pid = child.pid /\ ChildUnreaped)

\* C14: while signals are deliverable and a forked child is unreaped, the
\* recorded pid is that child's pid; ctx.compiler_pid changes only in steps
\* taken inside a blocker's scope; and a fork never overwrites the pid of an
\* earlier child, so at most one child is recorded.
C14_PidRecordedFromForkToReap ==
  /\ []((entry = "execute" /\ ~sigBlocked /\ ChildUnreaped) => compiler_pid = child.pid)
  /\ [][compiler_pid' # compiler_pid => (sigBlocked /\ sigBlocked')]_vars
  /\ [][(pc = "fork" /\ pc' # "fork") => compiler_pid = 0]_vars

C14_Witness ==
  /\ pc = "wait"
  /\ ~sigBlocked
  /\ child.pc = "running"
  /\ compiler_pid = child.pid
  /\ sigseen = [ran |-> TRUE, pid |-> child.pid, target |-> "child"]

\* C15 (as claimed): in no state of a launch are the sink descriptors open in
\* both the parent and the child.
C15_NeverOpenInBoth ==
  /\ ~(pfds.out /\ child.out)
  /\ ~(pfds.err /\ child.err)

\* C15 (amended): the parent's copies are open until the fork has made the
\* child's copies and are both closed before the parent's first waitpid call;
\* the child's copies are closed, after dup2 has put the sinks on its stdout
\* and stderr, before the compiler's image runs.
C15_ClosedAfterForkBeforeWait ==
  /\ (entry = "execute" /\ (~pfds.out \/ ~pfds.err)) => child.pc # "none"
  /\ (entry = "execute" /\ pc \in {"wait", "block_clear", "clear", "unblock_clear", "derive", "done"})
       => (~pfds.out /\ ~pfds.err)
  /\ (entry = "execute" /\ waitlog # <<>>) => (~pfds.out /\ ~pfds.err)
  /\ child.pc = "running" =>
       (~child.out /\ ~child.err /\ child.stdout = "sink" /\ child.stderr = "sink")

C15_Witness ==
  /\ pc = "wait"
  /\ waitlog # <<>>
  /\ ~pfds.out /\ ~pfds.err
  /\ child.pc = "running"
  /\ ~child.out /\ ~child.err
  /\ child.stdout = "sink"

====
